---------------------------- MODULE Spec2Model ----------------------------
(***************************************************************************)
(* Model of pythonNN/2DLidDriven/LidDriven.py: the POD reduced-order model *)
(* of the 2D lid-driven cavity (class CustomedEqs) and the residual of the *)
(* surrogate network (CustomedNet.loss_Eqs).                               *)
(*                                                                         *)
(* Numbers.  The program computes in floating point; the model computes in *)
(* exact fixed point, every quantity an integer multiple of a unit:        *)
(*   cos, sin            in units of 1/Unit.trig                           *)
(*   Jac11 .. Jac22      in units of 1/Unit.jac                            *)
(*   v = 1/Re            in units of 1/Unit.nu                             *)
(*   Acoef, BCoef, A, B, source, residuals   in units of 1/Unit.coef       *)
(*   grid coordinates xp, yp, hx, hy         in units of 1/Unit.len        *)
(*   dt                  in units of 1/Unit.dt                             *)
(*   psi                 in units of 1/Unit.psi                            *)
(*   omega               in units of 1/Unit.jac                            *)
(*   dpsi                in units of 1/(Unit.jac^2 * Unit.psi)             *)
(* Modes, fields, differentiation matrices, projections, modal             *)
(* coefficients and the reduced tensors are integers.  A division that is  *)
(* not exact rounds down, as a fixed-point division does.  Both tolerances *)
(* of the program (1e-6, 1e-8) are smaller than the unit of the quantity   *)
(* they are compared with, so "norm > 1e-6" is "the vector is not zero"    *)
(* and "max|dpsi| < 1e-8" is "dpsi is zero everywhere".                    *)
(*                                                                         *)
(* Indices.  The term slot of a tensor (first index) is 0-based as in the  *)
(* source; mode, grid, batch and sample indices are 1-based (source index  *)
(* plus one).                                                              *)
(***************************************************************************)
EXTENDS Integers, Sequences, FiniteSets, TLC

(***************************************************************************)
(* Bounds of the model and constants of the program.                       *)
(***************************************************************************)
M == 2              \* number of retained modes (constructor argument M)
MaxBatch == 2       \* largest query batch handed to an entry point
IterBudget == 3     \* stands for range(int(1E8)) of the relaxation loop
NVAR == 3           \* unknown variables p, u, v
PrintEvery == 10000 \* progress line every 10000 relaxation iterations

Unit == [trig |-> 5, jac |-> 2, nu |-> 600, coef |-> 2400,
         len |-> 10, dt |-> 200, psi |-> 800]

FieldShape == <<3, 3>>
Nx == FieldShape[1]
Ny == FieldShape[2]
GX == 1..Nx
GY == 1..Ny
InteriorShape == <<Nx - 2, Ny - 2>>
NDof == NVAR * InteriorShape[1] * InteriorShape[2]
Idx == 1..M
None == "None"
NoInit == << >>     \* lamda_init=None
NoResult == << >>   \* nothing returned (yet)
Unset == << >>      \* an attribute or local that is not assigned yet

(***************************************************************************)
(* Arithmetic helpers.                                                     *)
(***************************************************************************)
RECURSIVE SumTo(_, _)
SumTo(f, n) == IF n = 0 THEN 0 ELSE f[n] + SumTo(f, n - 1)

RECURSIVE SumSlots(_, _)
SumSlots(f, hi) == IF hi < 0 THEN 0 ELSE f[hi] + SumSlots(f, hi - 1)

Abs(x) == IF x < 0 THEN -x ELSE x
Min2(x, y) == IF x < y THEN x ELSE y

RECURSIVE Isqrt(_, _)
Isqrt(n, r) == IF (r + 1) * (r + 1) > n THEN r ELSE Isqrt(n, r + 1)

(***************************************************************************)
(* Grid fields: a field is a function GX -> GY -> Int.                     *)
(***************************************************************************)
FAdd(F, G) == [a \in GX |-> [b \in GY |-> F[a][b] + G[a][b]]]
FSub(F, G) == [a \in GX |-> [b \in GY |-> F[a][b] - G[a][b]]]
FMul(F, G) == [a \in GX |-> [b \in GY |-> F[a][b] * G[a][b]]]
FScale(c, F) == [a \in GX |-> [b \in GY |-> c * F[a][b]]]
FieldSum(F) == SumTo([a \in GX |-> SumTo(F[a], Ny)], Nx)
FieldMaxAbs(F) ==
    LET vals == {Abs(F[a][b]) : a \in GX, b \in GY}
    IN CHOOSE v \in vals : \A w \in vals : w <= v

Interior == [a \in GX |-> [b \in GY |->
                IF a \in 2..(Nx - 1) /\ b \in 2..(Ny - 1) THEN 1 ELSE 0]]
Boundary == [a \in GX |-> [b \in GY |-> 1 - Interior[a][b]]]


(***************************************************************************)
(* State.                                                                  *)
(***************************************************************************)
VARIABLES
    \* data loaded by __init__ and the results of the build
    Modes, uBC, dx, dy, dxp, dyp, parameters, design_space, projections,
    proj_mean, proj_std, ValidationParameters, ValidationSamples,
    Beqs, Bbc, Aeqs, Abc, ProjError, net,
    \* control: position of the program, operation in progress, what it
    \* returned or raised, and what it printed
    pc, op, args, ret, exc, log,
    \* POD_Gfsolve: arguments, loop index, result array, per-case locals,
    \* and the root finder's answers so far
    g_alpha, g_init, i, lamda, g_cases, fsolveMemo,
    \* GetPredFields: arguments, case index, per-case locals, iteration
    \* counter, stream function, max|dpsi| of each iteration of the case,
    \* collected fields and written files
    f_alpha, f_lamda, f_name, icase, f_case, it, psii, dpsiHist, Fields, files

dataVars == <<Modes, uBC, dx, dy, dxp, dyp, parameters, design_space,
              projections, proj_mean, proj_std, ValidationParameters,
              ValidationSamples>>
tensorVars == <<Beqs, Bbc, Aeqs, Abc>>
buildVars == <<Beqs, Bbc, Aeqs, Abc, ProjError, net>>
gfVars == <<g_alpha, g_init, i, lamda, g_cases, fsolveMemo>>
pfVars == <<f_alpha, f_lamda, f_name, icase, f_case, it, psii, dpsiHist,
            Fields, files>>
vars == <<dataVars, buildVars, pc, op, args, ret, exc, log, gfVars, pfVars>>

(***************************************************************************)
(* Input data the model draws from.  Chebyshev2D, loadmat, the SVD and     *)
(* Normalization are outside the modelled file: the differentiation        *)
(* matrices, the mode basis (pairwise orthogonal columns), the training    *)
(* projections and the validation snapshots are data.                      *)
(***************************************************************************)
Dc == << <<1, -1, 0>>, <<1, 0, -1>>, <<0, 1, -1>> >>
Du == << <<1, -1, 0>>, <<1, -1, 0>>, <<0, 1, -1>> >>
Ds == << <<3, -4, 1>>, <<1, 0, -1>>, <<-1, 4, -3>> >>
DiffOperators ==
    { [dx |-> Du, dy |-> Dc, dxp |-> Ds, dyp |-> Dc],
      [dx |-> Dc, dy |-> Dc, dxp |-> Dc, dyp |-> Ds] }

\* x-velocity field of training sample 0 (its boundary values become uBC)
SampleUFields ==
    { [a \in GX |-> [b \in GY |-> IF b = Ny THEN 1
                                   ELSE IF Interior[a][b] = 1 THEN 2 ELSE 0]],
      [a \in GX |-> [b \in GY |-> IF b = Ny THEN 2 ELSE IF a = 1 THEN 1
                                   ELSE IF Interior[a][b] = 1 THEN 3 ELSE 0]] }

\* interior degrees of freedom of a mode: (p, u, v) at the interior point
\* a basis takes its columns from the pool in the pool's order
ModePool == << <<1, 0, 0>>, <<0, 1, 0>>, <<0, 0, 1>>, <<0, 1, 1>>, <<0, 1, -1>> >>
Dot(x, y) == SumTo([d \in 1..NDof |-> x[d] * y[d]], NDof)
ModeBases ==
    { [m \in Idx |-> ModePool[r[m]]] :
        r \in { q \in [Idx -> 1..Len(ModePool)] :
                  \A m1, m2 \in Idx : m1 < m2 =>
                     /\ q[m1] < q[m2]
                     /\ Dot(ModePool[q[m1]], ModePool[q[m2]]) = 0 } }

TrainingParameters == << <<100, 90>>, <<200, 127>> >>
TrainingProjections ==
    { [m \in Idx |-> <<-m, m>>], [m \in Idx |-> <<1, 3>>] }
DesignSpace == << <<100, 53>>, <<300, 127>> >>
ValidationData ==
    [parameters |-> << <<100, 90>>, <<200, 53>> >>,
     samples |-> << <<1, 1, 0>>, <<0, 2, 1>> >>]

Queries == { <<100, 90>>, <<200, 90>>, <<200, 53>> }
LamdaRows == { [m \in Idx |-> 0], [m \in Idx |-> IF m = 1 THEN 1 ELSE -1] }
Batches(S) == UNION { [1..n -> S] : n \in 1..MaxBatch }
\* batches of n coefficient rows, every row the same
UniformBatches(S, n) == { [r \in 1..n |-> l] : l \in S }
FileNames == { "hh" }

(***************************************************************************)
(* Spectral differentiation (lines 123-142).                               *)
(***************************************************************************)
MatMulX(D, phi) ==     \* np.matmul(D, phi)
    [a \in GX |-> [b \in GY |-> SumTo([m \in GX |-> D[a][m] * phi[m][b]], Nx)]]
MatMulY(D, phi) ==     \* np.matmul(D, phi.T).T
    [a \in GX |-> [b \in GY |-> SumTo([m \in GY |-> D[b][m] * phi[a][m]], Ny)]]
Compute_d_dxc(phi) == MatMulX(dx, phi)
Compute_d_dyc(phi) == MatMulY(dy, phi)
Compute_dp_dxc(phi) == MatMulX(dxp, phi)
Compute_dp_dyc(phi) == MatMulY(dyp, phi)
Compute_d_dxc2(phi) == Compute_d_dxc(Compute_d_dxc(phi))
Compute_d_dyc2(phi) == Compute_d_dyc(Compute_d_dyc(phi))
Compute_d_dxcyc(phi) == Compute_d_dyc(Compute_d_dxc(phi))

(***************************************************************************)
(* Mode2Field (lines 112-117): the interleaved (p,u,v) vector of interior  *)
(* values becomes three fields that are zero on the boundary.              *)
(***************************************************************************)
FlatIndex(a, b) == (a - 2) * InteriorShape[2] + (b - 2)
Mode2Field(Vec) ==
    LET comp(c) == [a \in GX |-> [b \in GY |->
                      IF Interior[a][b] = 1
                      THEN Vec[NVAR * FlatIndex(a, b) + c] ELSE 0]]
    IN [p |-> comp(1), u |-> comp(2), v |-> comp(3)]

(***************************************************************************)
(* The build: getB (lines 173-210) and getA (lines 145-171).               *)
(* Inner(F) is ( self.Interior * F ).sum().                                *)
(***************************************************************************)
Inner(F) == FieldSum(FMul(Interior, F))

ModeFields == [j \in Idx |-> Mode2Field(Modes[j])]

\* variant of getB_Bbc with the lines of slots 2 and 3 copied from slots 0
\* and 1 (the v-momentum lines kept the u-momentum boundary term)
getB_Bbc_copied(t, fi) ==
    LET uBCxc == Compute_d_dxc(uBC)
        uBCyc == Compute_d_dyc(uBC)
        uBCxc2 == Compute_d_dxc2(uBC)
        uBCyc2 == Compute_d_dyc2(uBC)
        uBCxcyc == Compute_d_dxcyc(uBC)
    IN CASE t = 0 -> Inner(FMul(uBCxc, fi.p))
         [] t = 1 -> Inner(FMul(uBCyc, fi.p))
         [] t = 2 -> Inner(FMul(uBCxc, fi.p))
         [] t = 3 -> Inner(FMul(uBCyc, fi.p))
         [] t = 4 -> -Inner(FMul(uBCxc2, fi.u))
         [] t = 5 -> -Inner(FMul(uBCyc2, fi.u))
         [] t = 6 -> -Inner(FMul(uBCxcyc, fi.u))

\* the value getB stores in Bbc[t, i]
getB_Bbc(t, fi) ==
    LET uBCxc == Compute_d_dxc(uBC)
        uBCyc == Compute_d_dyc(uBC)
        uBCxc2 == Compute_d_dxc2(uBC)
        uBCyc2 == Compute_d_dyc2(uBC)
        uBCxcyc == Compute_d_dxcyc(uBC)
    IN CASE t = 0 -> Inner(FMul(uBCxc, fi.p))
         [] t = 1 -> Inner(FMul(uBCyc, fi.p))
         [] t = 2 -> Inner(FScale(0, fi.p))
         [] t = 3 -> Inner(FScale(0, fi.p))
         [] t = 4 -> -Inner(FMul(uBCxc2, fi.u))
         [] t = 5 -> -Inner(FMul(uBCyc2, fi.u))
         [] t = 6 -> -Inner(FMul(uBCxcyc, fi.u))

\* the value getB stores in Beqs[t, i, j]
getB_Beqs(t, fi, fj) ==
    LET ujxc == Compute_d_dxc(fj.u)
        ujyc == Compute_d_dyc(fj.u)
        vjxc == Compute_d_dxc(fj.v)
        vjyc == Compute_d_dyc(fj.v)
        pjxc == Compute_dp_dxc(fj.p)
        pjyc == Compute_dp_dyc(fj.p)
    IN CASE t = 0 -> Inner(FAdd(FMul(ujxc, fi.p), FMul(pjxc, fi.u)))
         [] t = 1 -> Inner(FAdd(FMul(ujyc, fi.p), FMul(pjyc, fi.u)))
         [] t = 2 -> Inner(FAdd(FMul(vjxc, fi.p), FMul(pjxc, fi.v)))
         [] t = 3 -> Inner(FAdd(FMul(vjyc, fi.p), FMul(pjyc, fi.v)))
         [] t = 4 -> -Inner(FAdd(FMul(Compute_d_dxc2(fj.u), fi.u),
                                 FMul(Compute_d_dxc2(fj.v), fi.v)))
         [] t = 5 -> -Inner(FAdd(FMul(Compute_d_dyc2(fj.u), fi.u),
                                 FMul(Compute_d_dyc2(fj.v), fi.v)))
         [] t = 6 -> -Inner(FAdd(FMul(Compute_d_dxcyc(fj.u), fi.u),
                                 FMul(Compute_d_dxcyc(fj.v), fi.v)))

getB ==
    [Beqs |-> [t \in 0..6 |-> [i1 \in Idx |-> [j \in Idx |->
                  getB_Beqs(t, ModeFields[i1], ModeFields[j])]]],
     Bbc |-> [t \in 0..6 |-> [i1 \in Idx |-> getB_Bbc(t, ModeFields[i1])]]]

\* the value getA stores in Abc[t, k, i]
getA_Abc(t, fk, fi) ==
    LET uBCxc == Compute_d_dxc(uBC)
        uBCyc == Compute_d_dyc(uBC)
    IN CASE t = 0 -> Inner(FMul(FMul(fi.u, uBCxc), fk.u))
         [] t = 1 -> Inner(FMul(FMul(fi.u, uBCyc), fk.u))
         [] t = 2 -> Inner(FMul(FMul(fi.v, uBCxc), fk.u))
         [] t = 3 -> Inner(FMul(FMul(fi.v, uBCyc), fk.u))

\* the value getA stores in Aeqs[t, k, i, j]
getA_Aeqs(t, fk, fi, fj) ==
    LET ujxc == Compute_d_dxc(fj.u)
        ujyc == Compute_d_dyc(fj.u)
        vjxc == Compute_d_dxc(fj.v)
        vjyc == Compute_d_dyc(fj.v)
        T(w, du, dv) == Inner(FAdd(FMul(FMul(w, du), fk.u),
                                   FMul(FMul(w, dv), fk.v)))
    IN CASE t = 0 -> T(fi.u, ujxc, vjxc)
         [] t = 1 -> T(fi.u, ujyc, vjyc)
         [] t = 2 -> T(fi.v, ujxc, vjxc)
         [] t = 3 -> T(fi.v, ujyc, vjyc)

getA ==
    [Aeqs |-> [t \in 0..3 |-> [k \in Idx |-> [i1 \in Idx |-> [j \in Idx |->
                  getA_Aeqs(t, ModeFields[k], ModeFields[i1], ModeFields[j])]]]],
     Abc |-> [t \in 0..3 |-> [k \in Idx |-> [i1 \in Idx |->
                  getA_Abc(t, ModeFields[k], ModeFields[i1])]]]]

(***************************************************************************)
(* Normalization.Mapstatic (tools/, described by the specification as the  *)
(* per-mode mean and standard deviation of the training projections).      *)
(***************************************************************************)
Mapstatic(proj) ==
    LET n == Len(proj[1])
        mean == [m \in Idx |-> SumTo(proj[m], n) \div n]
        var == [m \in Idx |->
                  SumTo([s \in 1..n |-> (proj[m][s] - mean[m]) * (proj[m][s] - mean[m])], n)
                  \div n]
    IN [mean |-> mean, std |-> [m \in Idx |-> Isqrt(var[m], 0)]]

(***************************************************************************)
(* CoordinateMap: getJac (211-218), getGrid (219-225), getABCoef (226-231).*)
(* cos and sin are the injected functions applied to alpha/180*3.14159...  *)
(***************************************************************************)
xCoefInv == 2       \* xCoef = 1/2
yCoefInv == 2       \* yCoef = 1/2

cosTheta(deg) == CASE deg = 53 -> 3 [] deg = 90 -> 0 [] deg = 127 -> -3
sinTheta(deg) == CASE deg = 53 -> 4 [] deg = 90 -> 5 [] deg = 127 -> 4

\* one row of alpha -> <<Jac11, Jac12, Jac21, Jac22>>, in units of 1/Unit.jac
getJacRow(a) ==
    LET c == cosTheta(a[2])
        s == sinTheta(a[2])
    IN << Unit.jac * xCoefInv,
          0 * a[2],
          -((c * xCoefInv * Unit.jac) \div s),
          (yCoefInv * Unit.trig * Unit.jac) \div s >>

getJac(alpha) ==
    [Jac11 |-> [r \in 1..Len(alpha) |-> getJacRow(alpha[r])[1]],
     Jac12 |-> [r \in 1..Len(alpha) |-> getJacRow(alpha[r])[2]],
     Jac21 |-> [r \in 1..Len(alpha) |-> getJacRow(alpha[r])[3]],
     Jac22 |-> [r \in 1..Len(alpha) |-> getJacRow(alpha[r])[4]]]

\* Chebyshev2D.grid() (tools/): the tensor-product collocation nodes
Chby2D_grid ==
    LET node == <<1, 0, -1>>
    IN [xc |-> [a \in GX |-> [b \in GY |-> node[a]]],
        yc |-> [a \in GX |-> [b \in GY |-> node[b]]]]

\* getGrid for a one-row alpha, in units of 1/Unit.len
getGrid(alphai) ==
    LET g == Chby2D_grid
        c == cosTheta(alphai[1][2])
        s == sinTheta(alphai[1][2])
    IN [xp |-> [a \in GX |-> [b \in GY |->
                  g.xc[a][b] * (Unit.len \div xCoefInv)
                  + g.yc[a][b] * c * (Unit.len \div (yCoefInv * Unit.trig))]],
        yp |-> [a \in GX |-> [b \in GY |->
                  g.yc[a][b] * s * (Unit.len \div (yCoefInv * Unit.trig))]]]

\* v = 1/alpha[:,0:1], in units of 1/Unit.nu
viscosity(a) == Unit.nu \div a[1]

\* variant of getABCoefRow in the order of getB's docstring (lines 175-178):
\* the mixed-derivative weight at position 5, the yc2 weight at position 6
getABCoefRow_docstring(a) ==
    LET J == getJacRow(a)
        v == viscosity(a)
        lin == Unit.coef \div Unit.jac
        quad == Unit.coef \div (Unit.nu * Unit.jac * Unit.jac)
    IN [Acoef |-> [t \in 0..3 |-> lin * J[t + 1]],
        BCoef |-> [t \in 0..6 |->
            CASE t \in 0..3 -> lin * J[t + 1]
              [] t = 4 -> quad * v * (J[1] * J[1] + J[3] * J[3])
              [] t = 5 -> quad * 2 * v * (J[1] * J[2] + J[3] * J[4])
              [] t = 6 -> quad * v * (J[2] * J[2] + J[4] * J[4])]]

\* getABCoef, row by row: both results in units of 1/Unit.coef; slots 0-based
getABCoefRow(a) ==
    LET J == getJacRow(a)
        v == viscosity(a)
        lin == Unit.coef \div Unit.jac
        quad == Unit.coef \div (Unit.nu * Unit.jac * Unit.jac)
    IN [Acoef |-> [t \in 0..3 |-> lin * J[t + 1]],
        BCoef |-> [t \in 0..6 |->
            CASE t \in 0..3 -> lin * J[t + 1]
              [] t = 4 -> quad * v * (J[1] * J[1] + J[3] * J[3])
              [] t = 5 -> quad * v * (J[2] * J[2] + J[4] * J[4])
              [] t = 6 -> quad * 2 * v * (J[1] * J[2] + J[3] * J[4])]]

getABCoef(alpha) ==
    [Acoef |-> [r \in 1..Len(alpha) |-> getABCoefRow(alpha[r]).Acoef],
     BCoef |-> [r \in 1..Len(alpha) |-> getABCoefRow(alpha[r]).BCoef]]

(***************************************************************************)
(* ReducedResidual, plain-array form: the helpers of POD_Gfsolve           *)
(* (lines 236-251).                                                        *)
(***************************************************************************)
Denormalise(x) == [m \in Idx |-> x[m] * proj_std[m] + proj_mean[m]]
Normalise(l) == [m \in Idx |-> (l[m] - proj_mean[m]) \div proj_std[m]]

\* variant of compute_eAe that contracts the first axis of A with e
\* (k and i change places)
compute_eAe_swapped(A, e) ==
    LET tmp == [k \in Idx |-> [j \in Idx |->
                   SumTo([i1 \in Idx |-> e[i1] * A[i1][k][j]], M)]]
    IN [k \in Idx |-> SumTo([j \in Idx |-> tmp[k][j] * e[j]], M)]

\* compute_eAe: tmp = matmul(e.T, A); matmul(tmp, e)
compute_eAe(A, e) ==
    LET tmp == [k \in Idx |-> [j \in Idx |->
                   SumTo([i1 \in Idx |-> e[i1] * A[k][i1][j]], M)]]
    IN [k \in Idx |-> SumTo([j \in Idx |-> tmp[k][j] * e[j]], M)]

\* np.matmul(B, lamda)
MatVec(B, l) == [k \in Idx |-> SumTo([j \in Idx |-> B[k][j] * l[j]], M)]

\* eqs(x, A, B, source): x is the normalised coefficient vector
eqs(x, A, B, source) ==
    LET l == Denormalise(x)
        quad == compute_eAe(A, l)
        lin == MatVec(B, l)
    IN [k \in Idx |-> quad[k] + lin[k] - source[k]]

\* Ai, Bi, sourcei of one query row (lines 246-251)
Assemble(alphai) ==
    LET c == getABCoef(alphai)
        AiCoeff == c.Acoef[1]
        BiCoeff == c.BCoef[1]
    IN [Ai |-> [k \in Idx |-> [i1 \in Idx |-> [j \in Idx |->
                  SumSlots([t \in 0..3 |-> AiCoeff[t] * Aeqs[t][k][i1][j]], 3)]]],
        Bi |-> [k \in Idx |-> [j \in Idx |->
                  SumSlots([t \in 0..3 |-> AiCoeff[t] * Abc[t][k][j]], 3)
                  + SumSlots([t \in 0..6 |-> BiCoeff[t] * Beqs[t][k][j]], 6)]],
        sourcei |-> [k \in Idx |->
                  -SumSlots([t \in 0..6 |-> BiCoeff[t] * Bbc[t][k]], 6)]]

\* np.linalg.norm(res) > Newton["eps"]: the residual is in units of
\* 1/Unit.coef > 1e-6, so its norm exceeds 1e-6 exactly when it is not zero
NormExceedsEps(res) == \E k \in Idx : res[k] # 0

(***************************************************************************)
(* Initial guess of POD_Gfsolve (lines 253-259).                           *)
(***************************************************************************)
\* variant of Distance2 without the division by the design-space widths
Distance2_raw(a, s) ==
    LET diff == [d \in 1..2 |-> a[d] - parameters[s][d]]
    IN diff[1] * diff[1] + diff[2] * diff[2]

\* squared norm of (alphai - parameters[s]) / (upper - lower), multiplied
\* by the square of both widths so that it stays an integer
Distance2(a, s) ==
    LET w == [d \in 1..2 |-> design_space[2][d] - design_space[1][d]]
        diff == [d \in 1..2 |-> a[d] - parameters[s][d]]
    IN diff[1] * diff[1] * w[2] * w[2] + diff[2] * diff[2] * w[1] * w[1]

\* ind = np.where(dis == dis.min())[0][0]
NearestSample(a) ==
    LET NS == Len(parameters)
        dis == [s \in 1..NS |-> Distance2(a, s)]
        least == CHOOSE d \in {dis[s] : s \in 1..NS} :
                    \A s \in 1..NS : d <= dis[s]
    IN CHOOSE s \in 1..NS :
          /\ dis[s] = least
          /\ \A s2 \in 1..(s - 1) : dis[s2] # least

\* variant that warm-starts a case from the row stored by the case before it
InitialGuess_warm(a, idx) ==
    IF idx > 1
    THEN [lamda0 |-> lamda[idx - 1], ind |-> 0]
    ELSE IF g_init = NoInit
    THEN LET ind == NearestSample(a)
         IN [lamda0 |-> [m \in Idx |-> projections[m][ind]], ind |-> ind]
    ELSE [lamda0 |-> g_init[idx], ind |-> 0]

\* lamda0 before normalisation, and the sample looked up (0: no lookup)
InitialGuess(a, idx) ==
    IF g_init = NoInit
    THEN LET ind == NearestSample(a)
         IN [lamda0 |-> [m \in Idx |-> projections[m][ind]], ind |-> ind]
    ELSE [lamda0 |-> g_init[idx], ind |-> 0]

(***************************************************************************)
(* scipy.optimize.fsolve (line 261).  The root finder is a library: a      *)
(* deterministic function of the residual function and the starting point  *)
(* that returns some point near the start, a root or not.  fsolveMemo      *)
(* holds the answers it has given during the call; a new question gets any *)
(* candidate.                                                              *)
(***************************************************************************)
FsolveSteps == { [m \in Idx |-> 0], [m \in Idx |-> 1] }

fsolve(A, B, source, x0) ==
    LET key == <<A, B, source, x0>>
    IN IF \E e \in fsolveMemo : e[1] = key
       THEN { e[2] : e \in { e \in fsolveMemo : e[1] = key } }
       ELSE { [m \in Idx |-> x0[m] + st[m]] : st \in FsolveSteps }

\* variant with line 265 active: a failed solution is overwritten by inf
\* (a number beyond every coefficient of the model) before it is stored
Inf == 1000 * 1000 * 1000
StoredRow_discard(lamdasol, res) ==
    IF NormExceedsEps(res)
    THEN Denormalise([m \in Idx |-> Inf])
    ELSE Denormalise(lamdasol)

\* lamda[i,:] = lamdasol[None,:]*self.proj_std + self.proj_mean (line 266;
\* line 265, which would overwrite a failed solution, is commented out)
StoredRow(lamdasol, res) == Denormalise(lamdasol)

\* lines 263-264: the diagnostic of a case whose residual is above eps
Diagnostic(idx, a, res) ==
    IF NormExceedsEps(res)
    THEN << [case |-> idx - 1, Re |-> a[1], Theta |-> a[2], err |-> res] >>
    ELSE << >>

(***************************************************************************)
(* ReducedResidual, differentiable form: CustomedNet.loss_Eqs              *)
(* (lines 380-390) on the tensors copied by CustomedNet.__init__           *)
(* (lines 347-356).  lossfun belongs to POD_Net (tools/NNs); the model     *)
(* returns its first argument, weight*fx.                                  *)
(***************************************************************************)
CustomedNet_init ==
    [Aeqs |-> Aeqs, Abc |-> Abc, Beqs |-> Beqs, Bbc |-> Bbc,
     lb |-> design_space[1], ub |-> design_space[2],
     proj_std |-> proj_std, proj_mean |-> proj_mean]

loss_Eqs(x, lam, weight) ==
    LET c == getABCoef(x)
        rows == 1..Len(x)
        A == [b \in rows |-> [k \in Idx |-> [i1 \in Idx |-> [j \in Idx |->
                SumSlots([t \in 0..3 |-> c.Acoef[b][t] * net.Aeqs[t][k][i1][j]], 3)]]]]
        B == [b \in rows |-> [k \in Idx |-> [j \in Idx |->
                SumSlots([t \in 0..3 |-> c.Acoef[b][t] * net.Abc[t][k][j]], 3)
                + SumSlots([t \in 0..6 |-> c.BCoef[b][t] * net.Beqs[t][k][j]], 6)]]]
        source == [b \in rows |-> [k \in Idx |->
                -SumSlots([t \in 0..6 |-> c.BCoef[b][t] * net.Bbc[t][k]], 6)]]
        fx1 == [b \in rows |-> [k \in Idx |-> [j \in Idx |->
                SumTo([i1 \in Idx |-> lam[b][i1] * A[b][k][i1][j]], M)]]]
        fx2 == [b \in rows |-> [k \in Idx |->
                SumTo([j \in Idx |-> fx1[b][k][j] * lam[b][j]], M)]]
        fx == [b \in rows |-> [k \in Idx |->
                fx2[b][k] + SumTo([j \in Idx |-> B[b][k][j] * lam[b][j]], M)
                - source[b][k]]]
    IN [b \in rows |-> [k \in Idx |-> weight * fx[b][k]]]

(***************************************************************************)
(* GetError (lines 271-287).  A relative error norm(d)/norm(r) is kept as  *)
(* the pair <<|d|^2, |r|^2>>; the mean over the validation cases is kept   *)
(* as the sequence of the cases' pairs.  PredRow is numpy's broadcasting   *)
(* of a one-row prediction against the validation rows.                    *)
(***************************************************************************)
ModalToField(lamrow) ==      \* one row of np.matmul(lamda, self.Modes.T)
    [d \in 1..NDof |-> SumTo([m \in Idx |-> lamrow[m] * Modes[m][d]], M)]

\* variant that compares the validation count with lamda.shape[1]
GetError_Mismatch_cols(lam) == Len(ValidationParameters) # Len(lam[1])

GetError_Mismatch(lam) == Len(ValidationParameters) # Len(lam)

GetError_Metrics(lam) ==
    LET Nvalidation == Len(ValidationParameters)
        PredRow(c) == IF Len(lam) = 1 THEN ModalToField(lam[1])
                      ELSE ModalToField(lam[c])
        Rel(c, D) ==
            << SumTo([d \in 1..NDof |-> IF d \in D
                        THEN (ValidationSamples[c][d] - PredRow(c)[d])
                             * (ValidationSamples[c][d] - PredRow(c)[d])
                        ELSE 0], NDof),
               SumTo([d \in 1..NDof |-> IF d \in D
                        THEN ValidationSamples[c][d] * ValidationSamples[c][d]
                        ELSE 0], NDof) >>
        Comp(nvar) == { d \in 1..NDof : (d - 1) % NVAR = nvar }
    IN [Errorpuv |-> [nvar \in 0..(NVAR - 1) |->
                        [c \in 1..Nvalidation |-> Rel(c, Comp(nvar))]],
        Errortotal |-> [c \in 1..Nvalidation |-> Rel(c, 1..NDof)]]

\* the whole of GetError: what it raises, returns and prints
GetError(lam) ==
    IF GetError_Mismatch(lam)
    THEN [exc |-> "Exception: The number of lamda should be equal to validation parameters",
          ret |-> NoResult, log |-> << >>]
    ELSE IF Len(lam) \notin {1, Len(ValidationParameters)}
    THEN [exc |-> "ValueError: operands could not be broadcast together",
          ret |-> NoResult, log |-> << >>]
    ELSE LET e == GetError_Metrics(lam)
         IN [exc |-> None, ret |-> [Errorpuv |-> e.Errorpuv, Errortotal |-> e.Errortotal],
             log |-> << [print |-> "Errortotal", value |-> e.Errortotal],
                        [print |-> "Errors", value |-> <<e.Errorpuv, e.Errortotal>>] >>]

\* lamda_proj = np.matmul(self.ValidationSamples.T, self.Modes) (line 109)
lamda_proj ==
    [c \in 1..Len(ValidationSamples) |-> [m \in Idx |->
        SumTo([d \in 1..NDof |-> ValidationSamples[c][d] * Modes[m][d]], NDof)]]

(***************************************************************************)
(* GetPredFields (lines 289-341): the per-case set-up (295-310) and one    *)
(* pass of the relaxation loop (312-318).                                  *)
(***************************************************************************)
PredCase(alpha, lam, c) ==
    LET f == Mode2Field(ModalToField(lam[c]))
        ui == FAdd(f.u, uBC)
        J == getJac(alpha)
        g == getGrid(<<alpha[c]>>)
        hx == Abs(g.xp[1][1] - g.xp[2][1])
        hy == Abs(g.yp[1][1] - g.yp[1][2])
        h == Min2(hx, hy)
        omegai == FSub(FAdd(FScale(J.Jac21[c], Compute_d_dxc(ui)),
                            FScale(J.Jac22[c], Compute_d_dyc(ui))),
                       FAdd(FScale(J.Jac11[c], Compute_d_dxc(f.v)),
                            FScale(J.Jac12[c], Compute_d_dyc(f.v))))
    IN [xp |-> g.xp, yp |-> g.yp, pi |-> f.p, ui |-> ui, vi |-> f.v,
        omegai |-> omegai,
        dt |-> (h * h * Unit.dt) \div (2 * Unit.len * Unit.len),
        J |-> <<J.Jac11[c], J.Jac12[c], J.Jac21[c], J.Jac22[c]>>]

\* variant of RelaxDpsi without the mask of line 317
RelaxDpsi_unmasked(psi, fc) ==
    LET J == fc.J
    IN FSub(FAdd(FAdd(
           FScale(J[1] * J[1] + J[3] * J[3], Compute_d_dxc2(psi)),
           FScale(J[2] * J[2] + J[4] * J[4], Compute_d_dyc2(psi))),
           FScale(2 * J[1] * J[2] + 2 * J[3] * J[4], Compute_d_dxcyc(psi))),
           FScale(Unit.jac * Unit.psi, fc.omegai))

\* dpsi of lines 312-317, already multiplied by self.Interior
RelaxDpsi(psi, fc) ==
    LET J == fc.J
        raw == FSub(FAdd(FAdd(
                   FScale(J[1] * J[1] + J[3] * J[3], Compute_d_dxc2(psi)),
                   FScale(J[2] * J[2] + J[4] * J[4], Compute_d_dyc2(psi))),
                   FScale(2 * J[1] * J[2] + 2 * J[3] * J[4], Compute_d_dxcyc(psi))),
                   FScale(Unit.jac * Unit.psi, fc.omegai))
    IN FMul(raw, Interior)

\* psii = psii + dpsi*dt (line 318)
RelaxUpdate(psi, dpsi, fc) ==
    [a \in GX |-> [b \in GY |->
        psi[a][b] + ((dpsi[a][b] * fc.dt) \div (Unit.jac * Unit.jac * Unit.dt))]]

\* variant without the test of lines 321-322
RelaxConverged_never(dpsi) == FALSE

\* np.abs(dpsi).max() < 1E-8 (line 321): dpsi is in units above 1e-8
RelaxConverged(dpsi) == FieldMaxAbs(dpsi) = 0

\* line 337: np.stack((xp, yp, pi, ui, vi, omegai, psii))
StackFields(fc, psi) ==
    [xp |-> fc.xp, yp |-> fc.yp, P |-> fc.pi, u |-> fc.ui, v |-> fc.vi,
     omega |-> fc.omegai, psi |-> psi]

(***************************************************************************)
(* Initial state: __init__ up to line 104 (data loaded, modes and          *)
(* projections known, masks and uBC set); the tensors are not built yet.   *)
(***************************************************************************)
GfIdle ==
    /\ g_alpha = << >> /\ g_init = NoInit /\ i = 0 /\ lamda = << >>
    /\ g_cases = << >> /\ fsolveMemo = {}
PfIdle ==
    /\ f_alpha = << >> /\ f_lamda = << >> /\ f_name = None /\ icase = 0
    /\ f_case = Unset /\ it = 0 /\ psii = Unset /\ dpsiHist = << >>
    /\ Fields = << >> /\ files = {}

Init ==
    /\ Modes \in ModeBases
    /\ \E u0 \in SampleUFields : uBC = FMul(u0, Boundary)
    /\ \E D \in DiffOperators :
          dx = D.dx /\ dy = D.dy /\ dxp = D.dxp /\ dyp = D.dyp
    /\ parameters = TrainingParameters
    /\ design_space = DesignSpace
    /\ projections \in TrainingProjections
    /\ proj_mean = Mapstatic(projections).mean
    /\ proj_std = Mapstatic(projections).std
    /\ ValidationParameters = ValidationData.parameters
    /\ ValidationSamples = ValidationData.samples
    /\ Beqs = Unset /\ Bbc = Unset /\ Aeqs = Unset /\ Abc = Unset
    /\ ProjError = Unset /\ net = Unset
    /\ pc = "getB" /\ op = "__init__" /\ args = << >>
    /\ ret = NoResult /\ exc = None /\ log = << >>
    /\ GfIdle /\ PfIdle

(***************************************************************************)
(* The rest of the constructors (lines 105-110, 347-356).                  *)
(***************************************************************************)
Build_getB ==
    /\ pc = "getB"
    /\ Beqs' = getB.Beqs /\ Bbc' = getB.Bbc
    /\ pc' = "getA"
    /\ UNCHANGED <<dataVars, Aeqs, Abc, ProjError, net, op, args, ret, exc,
                   log, gfVars, pfVars>>

Build_getA ==
    /\ pc = "getA"
    /\ Aeqs' = getA.Aeqs /\ Abc' = getA.Abc
    /\ pc' = "ProjError"
    /\ UNCHANGED <<dataVars, Beqs, Bbc, ProjError, net, op, args, ret, exc,
                   log, gfVars, pfVars>>

Build_ProjError ==
    /\ pc = "ProjError"
    /\ LET r == GetError(lamda_proj)
       IN ProjError' = r.ret /\ log' = r.log /\ exc' = r.exc
    /\ pc' = "CustomedNet"
    /\ UNCHANGED <<dataVars, tensorVars, net, op, args, ret, gfVars, pfVars>>

Build_CustomedNet ==
    /\ pc = "CustomedNet"
    /\ net' = CustomedNet_init
    /\ pc' = "ready" /\ op' = None /\ log' = << >>
    /\ UNCHANGED <<dataVars, tensorVars, ProjError, args, ret, exc, gfVars,
                   pfVars>>

(***************************************************************************)
(* POD_Gfsolve (lines 233-268).                                            *)
(***************************************************************************)
\* supplied lamda_init: every row the first guess, or the two guesses
\* alternating
GuessRows == << [m \in Idx |-> 0], [m \in Idx |-> m] >>
GuessBatches(n) ==
    { [r \in 1..n |-> GuessRows[1]],
      [r \in 1..n |-> IF r % 2 = 1 THEN GuessRows[2] ELSE GuessRows[1]] }

POD_Gfsolve_Call(alpha, lamda_init) ==
    /\ pc = "ready"
    /\ pc' = "gfsolve" /\ op' = "POD_Gfsolve"
    /\ args' = <<alpha, lamda_init>>
    /\ g_alpha' = alpha /\ g_init' = lamda_init
    /\ i' = 1
    /\ lamda' = [r \in 1..Len(alpha) |-> [m \in Idx |-> 0]]
    /\ g_cases' = << >> /\ fsolveMemo' = {}
    /\ ret' = NoResult /\ exc' = None /\ log' = << >>
    /\ UNCHANGED <<dataVars, buildVars, pfVars>>

\* variant whose line 260 normalises in place (lamda0 -= mean; lamda0 /= std):
\* after a lookup lamda0 is a view of column ind of self.projections
POD_Gfsolve_Frame_inplace(g) ==
    /\ projections' =
          IF g.ind = 0 THEN projections
          ELSE [m \in DOMAIN projections |->
                   [projections[m] EXCEPT ![g.ind] = Normalise(g.lamda0)[m]]]
    /\ UNCHANGED <<Modes, uBC, dx, dy, dxp, dyp, parameters, design_space,
                   proj_mean, proj_std, ValidationParameters,
                   ValidationSamples, buildVars>>

\* what one pass of the loop leaves alone: line 260 rebinds lamda0, and no
\* attribute of self is assigned anywhere in lines 244-266
POD_Gfsolve_Frame(g) == UNCHANGED <<dataVars, buildVars>>

POD_Gfsolve_Case ==
    /\ pc = "gfsolve" /\ i <= Len(g_alpha)
    /\ LET a == g_alpha[i]
           sys == Assemble(<<a>>)
           g == InitialGuess(a, i)
           x0 == Normalise(g.lamda0)
       IN \E lamdasol \in fsolve(sys.Ai, sys.Bi, sys.sourcei, x0) :
            LET res == eqs(lamdasol, sys.Ai, sys.Bi, sys.sourcei)
            IN /\ log' = log \o Diagnostic(i, a, res)
               /\ lamda' = [lamda EXCEPT ![i] = StoredRow(lamdasol, res)]
               /\ g_cases' = Append(g_cases,
                     [alphai |-> a, lamda0 |-> g.lamda0, ind |-> g.ind,
                      x0 |-> x0, lamdasol |-> lamdasol, err |-> res])
               /\ fsolveMemo' = fsolveMemo \cup
                     { << <<sys.Ai, sys.Bi, sys.sourcei, x0>>, lamdasol >> }
               /\ POD_Gfsolve_Frame(g)
    /\ i' = i + 1
    /\ UNCHANGED <<pc, op, args, ret, exc, g_alpha, g_init, pfVars>>

POD_Gfsolve_Return ==
    /\ pc = "gfsolve" /\ i > Len(g_alpha)
    /\ ret' = [lamda |-> lamda]
    /\ pc' = "done"
    /\ UNCHANGED <<dataVars, buildVars, op, args, exc, log, gfVars, pfVars>>

(***************************************************************************)
(* GetError, getJac, getGrid, getABCoef and loss_Eqs as calls.             *)
(***************************************************************************)
GetError_Call(lam) ==
    /\ pc = "ready"
    /\ pc' = "done" /\ op' = "GetError" /\ args' = <<lam>>
    /\ LET r == GetError(lam)
       IN ret' = r.ret /\ exc' = r.exc /\ log' = r.log
    /\ UNCHANGED <<dataVars, buildVars, gfVars, pfVars>>

getJac_Call(alpha) ==
    /\ pc = "ready"
    /\ pc' = "done" /\ op' = "getJac" /\ args' = <<alpha>>
    /\ ret' = getJac(alpha)
    /\ exc' = None /\ log' = << >>
    /\ UNCHANGED <<dataVars, buildVars, gfVars, pfVars>>

getGrid_Call(alphai) ==
    /\ pc = "ready"
    /\ pc' = "done" /\ op' = "getGrid" /\ args' = <<alphai>>
    /\ ret' = getGrid(alphai)
    /\ exc' = None /\ log' = << >>
    /\ UNCHANGED <<dataVars, buildVars, gfVars, pfVars>>

getABCoef_Call(alpha) ==
    /\ pc = "ready"
    /\ pc' = "done" /\ op' = "getABCoef" /\ args' = <<alpha>>
    /\ ret' = getABCoef(alpha)
    /\ exc' = None /\ log' = << >>
    /\ UNCHANGED <<dataVars, buildVars, gfVars, pfVars>>

loss_Eqs_Call(x, lam) ==
    /\ pc = "ready"
    /\ pc' = "done" /\ op' = "loss_Eqs" /\ args' = <<x, lam>>
    /\ ret' = [fx |-> loss_Eqs(x, lam, 1)]
    /\ exc' = None /\ log' = << >>
    /\ UNCHANGED <<dataVars, buildVars, gfVars, pfVars>>

(***************************************************************************)
(* GetPredFields (lines 289-341).                                          *)
(***************************************************************************)
GetPredFields_Call(alpha, lam, filename) ==
    /\ pc = "ready"
    /\ pc' = "fields_case" /\ op' = "GetPredFields"
    /\ args' = <<alpha, lam, filename>>
    /\ f_alpha' = alpha /\ f_lamda' = lam /\ f_name' = filename
    /\ icase' = 1 /\ Fields' = << >>
    /\ ret' = NoResult /\ exc' = None /\ log' = << >>
    /\ UNCHANGED <<dataVars, buildVars, gfVars, f_case, it, psii, dpsiHist,
                   files>>

\* lines 295-310: fields, vorticity, time step, psii = 0*omegai
GetPredFields_Case ==
    /\ pc = "fields_case" /\ icase <= Len(f_lamda)
    /\ LET fc == PredCase(f_alpha, f_lamda, icase)
       IN f_case' = fc /\ psii' = FScale(0, fc.omegai)
    /\ it' = 0 /\ dpsiHist' = << >>
    /\ pc' = "relax"
    /\ UNCHANGED <<dataVars, buildVars, op, args, ret, exc, log, gfVars,
                   f_alpha, f_lamda, f_name, icase, Fields, files>>

\* one pass of "for it in range(int(1E8))" (lines 311-322)
GetPredFields_Relax ==
    /\ pc = "relax" /\ it < IterBudget
    /\ LET dpsi == RelaxDpsi(psii, f_case)
           dmax == FieldMaxAbs(dpsi)
       IN /\ psii' = RelaxUpdate(psii, dpsi, f_case)
          /\ dpsiHist' = Append(dpsiHist, dmax)
          /\ log' = IF it % PrintEvery = 0
                    THEN Append(log, [print |-> "dpsi", it |-> it,
                                      value |-> dmax])
                    ELSE log
          /\ IF RelaxConverged(dpsi) \/ it + 1 = IterBudget
             THEN pc' = "write" /\ it' = it
             ELSE pc' = "relax" /\ it' = it + 1
    /\ UNCHANGED <<dataVars, buildVars, op, args, ret, exc, gfVars, f_alpha,
                   f_lamda, f_name, icase, f_case, Fields, files>>

\* lines 325-337: the case's .plt file and its entry of Fields
GetPredFields_Write ==
    /\ pc = "write"
    /\ files' = files \cup
          { [name |-> <<f_name, icase - 1, ".plt">>,
             data |-> StackFields(f_case, psii)] }
    /\ Fields' = Append(Fields, StackFields(f_case, psii))
    /\ icase' = icase + 1
    /\ pc' = "fields_case"
    /\ UNCHANGED <<dataVars, buildVars, op, args, ret, exc, log, gfVars,
                   f_alpha, f_lamda, f_name, f_case, it, psii, dpsiHist>>

\* lines 338-341: savemat and return
GetPredFields_Return ==
    /\ pc = "fields_case" /\ icase > Len(f_lamda)
    /\ files' = files \cup { [name |-> <<f_name, ".mat">>, data |-> Fields] }
    /\ ret' = [Fields |-> Fields]
    /\ pc' = "done"
    /\ UNCHANGED <<dataVars, buildVars, op, args, exc, log, gfVars, f_alpha,
                   f_lamda, f_name, icase, f_case, it, psii, dpsiHist, Fields>>

(***************************************************************************)
(* The caller takes the result (or the exception); the call's locals go.   *)
(***************************************************************************)
Release ==
    /\ pc = "done"
    /\ pc' = "ready" /\ op' = None /\ args' = << >>
    /\ ret' = NoResult /\ exc' = None /\ log' = << >>
    /\ g_alpha' = << >> /\ g_init' = NoInit /\ i' = 0 /\ lamda' = << >>
    /\ g_cases' = << >> /\ fsolveMemo' = {}
    /\ f_alpha' = << >> /\ f_lamda' = << >> /\ f_name' = None /\ icase' = 0
    /\ f_case' = Unset /\ it' = 0 /\ psii' = Unset /\ dpsiHist' = << >>
    /\ Fields' = << >> /\ files' = {}
    /\ UNCHANGED <<dataVars, buildVars>>

Next ==
    \/ Build_getB
    \/ Build_getA
    \/ Build_ProjError
    \/ Build_CustomedNet
    \/ \E alpha \in Batches(Queries) :
         \E lamda_init \in {NoInit} \cup GuessBatches(Len(alpha)) :
            POD_Gfsolve_Call(alpha, lamda_init)
    \/ POD_Gfsolve_Case
    \/ POD_Gfsolve_Return
    \/ \E lam \in Batches(LamdaRows) : GetError_Call(lam)
    \/ \E alpha \in Batches(Queries) : getJac_Call(alpha)
    \/ \E a \in Queries : getGrid_Call(<<a>>)
    \/ \E alpha \in Batches(Queries) : getABCoef_Call(alpha)
    \/ \E x \in Batches(Queries) :
         \E lam \in UniformBatches(LamdaRows, Len(x)) :
            loss_Eqs_Call(x, lam)
    \/ \E alpha \in Batches(Queries) :
         \E lam \in UniformBatches(LamdaRows, Len(alpha)) :
            \E filename \in FileNames : GetPredFields_Call(alpha, lam, filename)
    \/ GetPredFields_Case
    \/ GetPredFields_Relax
    \/ GetPredFields_Write
    \/ GetPredFields_Return
    \/ Release

Spec == Init /\ [][Next]_vars

(***************************************************************************)
(* Properties.                                                             *)
(***************************************************************************)
Built == pc \notin {"getB", "getA"}
Constructed == pc \notin {"getB", "getA", "ProjError", "CustomedNet"}
InGfsolve == op = "POD_Gfsolve"
GfsolveDone == op = "POD_Gfsolve" /\ pc = "done"
SoftFailed(c) == \E k \in Idx : g_cases[c].err[k] # 0

\* C1: when POD_Gfsolve has returned, what it returned tells a soft-failed
\* case from a converged one: two cases with the same returned row are
\* both soft failures or both converged.
C1_ReturnTellsSoftFailure ==
    GfsolveDone =>
        \A c1, c2 \in 1..Len(ret.lamda) :
            ret.lamda[c1] = ret.lamda[c2] => (SoftFailed(c1) <=> SoftFailed(c2))

\* C2: every case of POD_Gfsolve ends converged or soft-failed.  A
\* soft-failed case prints one diagnostic with its index, its two parameters
\* and the residual it reached; a converged case prints nothing.  In both
\* outcomes the de-normalised solution is stored in the row of the case, no
\* exception is raised, the case is solved once and the loop goes on: the
\* returned array has one row per query.
C2_EveryCaseStored ==
    InGfsolve =>
        /\ exc = None
        /\ Len(g_cases) = i - 1
        /\ Len(lamda) = Len(g_alpha)
        /\ \A c \in 1..Len(g_cases) :
              /\ g_cases[c].alphai = g_alpha[c]
              /\ \A m \in Idx :
                    lamda[c][m] =
                        g_cases[c].lamdasol[m] * proj_std[m] + proj_mean[m]
              /\ LET printed == { n \in 1..Len(log) : log[n].case = c - 1 }
                 IN IF SoftFailed(c)
                    THEN /\ Cardinality(printed) = 1
                         /\ \A n \in printed :
                               /\ log[n].Re = g_alpha[c][1]
                               /\ log[n].Theta = g_alpha[c][2]
                               /\ log[n].err = g_cases[c].err
                    ELSE printed = {}
        /\ \A n \in 1..Len(log) : log[n].case \in 0..(Len(g_cases) - 1)
        /\ pc = "done" => /\ Len(g_cases) = Len(g_alpha)
                          /\ ret = [lamda |-> lamda]

\* a returned batch with a converged case followed by a soft-failed one
C2_Witness ==
    /\ GfsolveDone
    /\ Len(ret.lamda) = 2
    /\ ~SoftFailed(1) /\ SoftFailed(2)
    /\ Len(log) = 1

ModesWithoutV == \A i1 \in Idx : Inner(FMul(ModeFields[i1].v, ModeFields[i1].v)) = 0
UBCFlatIn(d) ==
    LET g == IF d = "xc" THEN Compute_d_dxc(uBC) ELSE Compute_d_dyc(uBC)
    IN Inner(FMul(g, g)) = 0

C4_OperationsLeaveObject ==
    [][Constructed =>
          UNCHANGED <<Aeqs, Abc, Beqs, Bbc, Modes, projections, proj_mean,
                      proj_std, uBC>>]_vars

\* POD_Gfsolve has returned from a batch whose guesses were looked up in
\* the training projections
C4_Witness ==
    /\ GfsolveDone
    /\ g_init = NoInit
    /\ \E c \in 1..Len(g_cases) : g_cases[c].ind # 0

C6_GetErrorCountCheck ==
    [][(pc = "ready" /\ op' = "GetError") =>
          /\ UNCHANGED <<dataVars, buildVars>>
          /\ IF Len(args'[1]) # Len(ValidationParameters)
             THEN /\ exc' = "Exception: The number of lamda should be equal to validation parameters"
                  /\ ret' = NoResult
                  /\ log' = << >>
             ELSE /\ exc' = None
                  /\ DOMAIN ret' = {"Errorpuv", "Errortotal"}
                  /\ Len(log') = 2]_vars

\* GetError has raised on a row count that differs from the validation count
C6_Witness ==
    /\ pc = "done" /\ op = "GetError"
    /\ Len(args[1]) # Len(ValidationParameters)
    /\ exc # None

\* one pass of the loop of lines 311-322, seen from its control variables:
\* in the loop the only step of Next is GetPredFields_Relax
LoopPass ==
    /\ pc = "relax" /\ it < IterBudget
    /\ pc' \in {"relax", "write"}
    /\ it' \in {it, it + 1}

\* the interpreter keeps running the loop it has entered
FairSpec == Spec /\ WF_<<pc, it>>(LoopPass)

InRelaxation == op = "GetPredFields" /\ pc \in {"relax", "write"}

\* C7: the relaxation loop of GetPredFields always terminates.  It goes on
\* only while every update so far was above the tolerance and the budget is
\* not used up; it stops at the first iteration whose largest absolute
\* update is below the tolerance, otherwise after IterBudget iterations.
\* Using up the budget raises nothing and prints nothing but the progress
\* lines, and the last iterate is the psi of the case's fields.
C7_RelaxationTerminates ==
    /\ [](InRelaxation =>
            /\ Len(dpsiHist) <= IterBudget
            /\ \A n \in 1..(Len(dpsiHist) - 1) : dpsiHist[n] # 0
            /\ exc = None
            /\ \A n \in 1..Len(log) :
                  log[n].print = "dpsi" /\ log[n].it % PrintEvery = 0)
    /\ []((op = "GetPredFields" /\ pc = "relax") =>
            /\ Len(dpsiHist) = it
            /\ it < IterBudget
            /\ \A n \in 1..Len(dpsiHist) : dpsiHist[n] # 0)
    /\ []((op = "GetPredFields" /\ pc = "write") =>
            /\ Len(dpsiHist) >= 1
            /\ dpsiHist[Len(dpsiHist)] = 0 \/ Len(dpsiHist) = IterBudget)
    /\ []((op = "GetPredFields" /\ pc \in {"fields_case", "done"}) =>
            /\ Len(Fields) = icase - 1
            /\ Len(Fields) >= 1 => Fields[Len(Fields)].psi = psii)
    /\ ((op = "GetPredFields" /\ pc = "relax")
           ~> (op = "GetPredFields" /\ pc = "write"))

\* the second case of a batch has used up the budget without converging
C7_Witness ==
    /\ op = "GetPredFields" /\ pc = "write"
    /\ icase = 2 /\ Len(Fields) = 1
    /\ Len(dpsiHist) = IterBudget
    /\ \A n \in 1..IterBudget : dpsiHist[n] # 0

\* the reduced residual as the formula states it, for one parameter row a
\* and one un-normalised coefficient vector l
QuadraticPart(a, l) ==
    LET c == getABCoefRow(a)
        A(k, i1, j) == SumSlots([t \in 0..3 |-> c.Acoef[t] * Aeqs[t][k][i1][j]], 3)
    IN [k \in Idx |->
          SumTo([i1 \in Idx |->
             SumTo([j \in Idx |-> l[i1] * A(k, i1, j) * l[j]], M)], M)]

ResidualFormula(a, l) ==
    LET c == getABCoefRow(a)
        B(k, j) == SumSlots([t \in 0..3 |-> c.Acoef[t] * Abc[t][k][j]], 3)
                   + SumSlots([t \in 0..6 |-> c.BCoef[t] * Beqs[t][k][j]], 6)
        source(k) == -SumSlots([t \in 0..6 |-> c.BCoef[t] * Bbc[t][k]], 6)
        quad == QuadraticPart(a, l)
    IN [k \in Idx |->
          quad[k] + SumTo([j \in Idx |-> B(k, j) * l[j]], M) - source(k)]

\* C8: the residual that POD_Gfsolve evaluates (eqs with Ai, Bi, sourcei, at
\* the un-normalised coefficients it stores) and the residual of
\* CustomedNet.loss_Eqs are the same formula: component k is
\* sum_ij l_i A[k,i,j] l_j + sum_j B[k,j] l_j - source_k with A, B and source
\* assembled from the coefficients and the tensors, k, i, j placed alike.
C8_ResidualsSameFormula ==
    /\ (op = "loss_Eqs" /\ pc = "done") =>
          \A b \in 1..Len(args[1]) :
              ret.fx[b] = ResidualFormula(args[1][b], args[2][b])
    /\ InGfsolve =>
          \A c \in 1..Len(g_cases) :
              g_cases[c].err = ResidualFormula(g_alpha[c], lamda[c])

\* loss_Eqs has returned a non-zero residual with a non-zero quadratic part
C8_Witness ==
    /\ op = "loss_Eqs" /\ pc = "done"
    /\ \E b \in 1..Len(args[1]) :
          /\ \E k \in Idx : ret.fx[b][k] # 0
          /\ \E k \in Idx : QuadraticPart(args[1][b], args[2][b])[k] # 0

\* the term table: for each slot the velocity component and the derivative
\* of its term, and the name of its weight
TermTable ==
    [t \in 0..6 |->
        CASE t = 0 -> [vel |-> "u", d |-> "xc", weight |-> "J11"]
          [] t = 1 -> [vel |-> "u", d |-> "yc", weight |-> "J12"]
          [] t = 2 -> [vel |-> "v", d |-> "xc", weight |-> "J21"]
          [] t = 3 -> [vel |-> "v", d |-> "yc", weight |-> "J22"]
          [] t = 4 -> [vel |-> "uv", d |-> "xc2", weight |-> "nu(J11^2+J21^2)"]
          [] t = 5 -> [vel |-> "uv", d |-> "yc2", weight |-> "nu(J12^2+J22^2)"]
          [] t = 6 -> [vel |-> "uv", d |-> "xcyc", weight |-> "2nu(J11J12+J21J22)"]]

TableDeriv(d, F) ==
    CASE d = "xc" -> Compute_d_dxc(F)
      [] d = "yc" -> Compute_d_dyc(F)
      [] d = "xc2" -> Compute_d_dxc2(F)
      [] d = "yc2" -> Compute_d_dyc2(F)
      [] d = "xcyc" -> Compute_d_dxcyc(F)

TableDerivP(d, F) == IF d = "xc" THEN Compute_dp_dxc(F) ELSE Compute_dp_dyc(F)

TableVel(f, vel) == IF vel = "u" THEN f.u ELSE f.v

\* the table's weight for parameter row a, times Unit.coef * Unit.nu * Unit.jac^2
TableWeight(w, a) ==
    LET J == getJacRow(a)
        J11 == J[1]
        J12 == J[2]
        J21 == J[3]
        J22 == J[4]
        nu == Unit.nu \div a[1]
        first == Unit.coef * Unit.nu * Unit.jac
        second == Unit.coef
    IN CASE w = "J11" -> first * J11
         [] w = "J12" -> first * J12
         [] w = "J21" -> first * J21
         [] w = "J22" -> first * J22
         [] w = "nu(J11^2+J21^2)" -> second * nu * (J11 * J11 + J21 * J21)
         [] w = "nu(J12^2+J22^2)" -> second * nu * (J12 * J12 + J22 * J22)
         [] w = "2nu(J11J12+J21J22)" -> second * 2 * nu * (J11 * J12 + J21 * J22)

\* the term the table puts in slot t of Beqs, Bbc, Aeqs, Abc
TableBeqs(t, fi, fj) ==
    LET e == TermTable[t]
    IN IF t <= 3
       THEN Inner(FAdd(FMul(TableDeriv(e.d, TableVel(fj, e.vel)), fi.p),
                       FMul(TableDerivP(e.d, fj.p), TableVel(fi, e.vel))))
       ELSE -Inner(FAdd(FMul(TableDeriv(e.d, fj.u), fi.u),
                        FMul(TableDeriv(e.d, fj.v), fi.v)))

TableBbc(t, fi) ==
    LET e == TermTable[t]
    IN IF t <= 3
       THEN IF e.vel = "u" THEN Inner(FMul(TableDeriv(e.d, uBC), fi.p)) ELSE 0
       ELSE -Inner(FMul(TableDeriv(e.d, uBC), fi.u))

TableAeqs(t, fk, fi, fj) ==
    LET e == TermTable[t]
        w == TableVel(fi, e.vel)
    IN Inner(FAdd(FMul(FMul(w, TableDeriv(e.d, fj.u)), fk.u),
                  FMul(FMul(w, TableDeriv(e.d, fj.v)), fk.v)))

TableAbc(t, fk, fi) ==
    LET e == TermTable[t]
    IN Inner(FMul(FMul(TableVel(fi, e.vel), TableDeriv(e.d, uBC)), fk.u))

NotFarther(a, s1, s2) ==
    LET w1 == design_space[2][1] - design_space[1][1]
        w2 == design_space[2][2] - design_space[1][2]
        N(s) == (a[1] - parameters[s][1]) * (a[1] - parameters[s][1]) * w2 * w2
                + (a[2] - parameters[s][2]) * (a[2] - parameters[s][2]) * w1 * w1
    IN N(s1) <= N(s2)

\* C10: the initial guess of every case of POD_Gfsolve.  With lamda_init
\* supplied it is row i of lamda_init and no sample is looked up.  Without,
\* it is the projection-coefficient vector of the training sample nearest
\* to the query in the width-normalised Euclidean distance, the lowest-
\* indexed one of those at the minimum.
C10_InitialGuess ==
    InGfsolve =>
        \A c \in 1..Len(g_cases) :
            IF g_init # NoInit
            THEN /\ g_cases[c].lamda0 = g_init[c]
                 /\ g_cases[c].ind = 0
            ELSE LET ind == g_cases[c].ind
                     a == g_alpha[c]
                 IN /\ ind \in 1..Len(parameters)
                    /\ \A s \in 1..Len(parameters) : NotFarther(a, ind, s)
                    /\ \A s \in 1..(ind - 1) : ~NotFarther(a, s, ind)
                    /\ \A m \in Idx : g_cases[c].lamda0[m] = projections[m][ind]

\* a looked-up case whose query is nearer to a sample in plain distance than
\* to the sample chosen, and a case that has two samples at the minimum
C10_Witness ==
    /\ GfsolveDone
    /\ g_init = NoInit
    /\ \E c \in 1..Len(g_cases) : \E s \in 1..Len(parameters) :
          LET a == g_alpha[c]
              R(n) == (a[1] - parameters[n][1]) * (a[1] - parameters[n][1])
                      + (a[2] - parameters[n][2]) * (a[2] - parameters[n][2])
          IN R(s) < R(g_cases[c].ind)
    /\ \E c \in 1..Len(g_cases) : \E s \in 1..Len(parameters) :
          /\ s # g_cases[c].ind
          /\ NotFarther(g_alpha[c], s, g_cases[c].ind)

\* the grid points of the first and last row and column
BoundaryPoints == { q \in GX \X GY : q[1] \in {1, Nx} \/ q[2] \in {1, Ny} }

\* F is zero at every boundary point
ZeroOnBoundary(F) == \A q \in BoundaryPoints : F[q[1]][q[2]] = 0

\* F and G agree at every boundary point
EqualOnBoundary(F, G) == \A q \in BoundaryPoints : F[q[1]][q[2]] = G[q[1]][q[2]]

\* the stacked fields of one case carry the boundary values: psi, pressure
\* and y-velocity zero, x-velocity the profile uBC
BoundaryValues(F) ==
    /\ ZeroOnBoundary(F.psi)
    /\ ZeroOnBoundary(F.P)
    /\ ZeroOnBoundary(F.v)
    /\ EqualOnBoundary(F.u, uBC)

\* C11: in GetPredFields the relaxation changes psi at interior points
\* only.  Before the first pass of the loop, after every pass and when
\* the case is written, psi is zero at every point of the first and last row
\* and column; the case's pressure and y-velocity are zero there and its
\* x-velocity is uBC there.  The same holds for every case appended to
\* Fields, written to a .plt file and returned.
C11_BoundaryFixed ==
    /\ (op = "GetPredFields" /\ pc \in {"relax", "write"}) =>
           /\ ZeroOnBoundary(psii)
           /\ ZeroOnBoundary(f_case.pi)
           /\ ZeroOnBoundary(f_case.vi)
           /\ EqualOnBoundary(f_case.ui, uBC)
    /\ \A c \in 1..Len(Fields) : BoundaryValues(Fields[c])
    /\ \A f \in files :
           f.name[Len(f.name)] = ".plt" => BoundaryValues(f.data)
    /\ (op = "GetPredFields" /\ pc = "done") =>
           \A c \in 1..Len(ret.Fields) : BoundaryValues(ret.Fields[c])

\* a second or later pass of the loop whose psi has moved in the interior,
\* whose unmasked update is not zero on the boundary and whose boundary
\* profile is not zero, after an earlier case was written with a psi that
\* is not zero everywhere
C11_Witness ==
    /\ op = "GetPredFields" /\ pc = "relax" /\ it >= 1
    /\ \E q \in (GX \X GY) \ BoundaryPoints : psii[q[1]][q[2]] # 0
    /\ ~ZeroOnBoundary(RelaxDpsi_unmasked(psii, f_case))
    /\ ~ZeroOnBoundary(uBC)
    /\ Len(Fields) >= 1
    /\ \E q \in GX \X GY : Fields[1].psi[q[1]][q[2]] # 0

=============================================================================
